---- MODULE Spec2Model ----
(***************************************************************************)
(* ferropress template engine (src/src/bin/parser.rs): the character-by-   *)
(* character parser (Parser::parse_ch), the node tree it builds, and the   *)
(* renderer (Node::to_html) with placeholder substitution                  *)
(* (inject_context).                                                       *)
(*                                                                         *)
(* Text is a sequence of one-character strings.  Option<T> is a sequence   *)
(* of length 0 (None) or 1 (Some).  Nodes live in an arena `nodes`; a      *)
(* NodeRef / WeakNodeRef is an index into it.                              *)
(***************************************************************************)
EXTENDS Integers, Sequences, FiniteSets, TLC

VARIABLES
    file_name,      \* parse_file: which file is being parsed
    todo,           \* characters of a known file not yet consumed
    n,              \* number of characters consumed so far (calls of parse_ch)
    last2,          \* the last two source characters consumed
    arm,            \* the match arm the last call of parse_ch took
    state,          \* Parser.state
    buf,            \* Parser.buf
    comment_buf,    \* Parser.comment_buf
    attr_buf,       \* Parser.attr_buf
    current_node,   \* Parser.current_node
    nodes,          \* the heap of Node values; nodes[Root] is Parser.root
    pc,             \* parse_file: "parsing" or "rendered"
    ctx,            \* the Context handed to parse_file
    html,           \* the text the last render returned
    renders,        \* number of renders done on the finished tree
    opens,          \* document generator: cursor depth after each unclosed opener
    lastTok,        \* document generator: kind of the last token emitted
    toks,           \* document generator: number of tokens emitted
    inGrammar,      \* document generator: the document so far follows the grammar
    closeObs        \* document generator: observations made at closing tags

vars == <<file_name, todo, n, last2, arm, state, buf, comment_buf, attr_buf,
          current_node, nodes, pc, ctx, html, renders,
          opens, lastTok, toks, inGrammar, closeObs>>

parserVars == <<state, buf, comment_buf, attr_buf, current_node, nodes>>
genVars == <<opens, lastTok, toks, inGrammar, closeObs>>

----------------------------------------------------------------------------
(* Bounds of the model *)

\* longest input explored character by character over Alphabet
MaxLen == 5
\* renders of one finished tree
MaxRenders == 2
\* tokens of a generated document
MaxToks == 6

----------------------------------------------------------------------------
(* Characters *)

\* char::is_alphanumeric, on the characters the model uses
Alnum == {"a", "b", "c", "d", "e", "g", "h", "i", "l", "m", "n", "o", "p",
          "r", "s", "t", "u", "v", "x", "1", "2", "3", "4"}

is_alphanumeric(ch) == ch \in Alnum

\* \s of the regex crate, on the characters the model uses
is_whitespace(ch) == ch \in {" ", "\t", "\n", "\r"}

\* the characters fed one by one when the file is arbitrary
Alphabet == {"<", ">", "/", "!", "-", " ", "\\", "a"}

\* Option<T>
None == <<>>
Some(x) == <<x>>
is_some(o) == o # <<>>
unwrap(o) == o[1]

ends_with(s, suffix) ==
    /\ Len(s) >= Len(suffix)
    /\ SubSeq(s, Len(s) - Len(suffix) + 1, Len(s)) = suffix

----------------------------------------------------------------------------
(* inject_context: the regex \{\{\s*(.+?)\s*\}\} and Regex::replace_all *)

\* the literal inject_context falls back to
default == <<"C", "T", "X", " ", "M", "I", "S", "S">>

\* the character at position i, "" beyond the end of the text
CharAt(s, i) == IF i \in 1..Len(s) THEN s[i] ELSE ""

\* \s* taken greedily from position i: the length of the whitespace run
RECURSIVE WsRun(_, _)
WsRun(s, i) ==
    IF i \in 1..Len(s) /\ is_whitespace(s[i]) THEN 1 + WsRun(s, i + 1) ELSE 0

\* \s*\}\} from position q: the position after the match, 0 when there is none
\* (giving back whitespace leaves a whitespace character where "}" must be)
CloseFrom(s, q) ==
    LET w == WsRun(s, q) IN
    IF CharAt(s, q + w) = "}" /\ CharAt(s, q + w + 1) = "}" THEN q + w + 2 ELSE 0

\* the ways the regex matches with "{{" at position i: <<w, ke>> is the
\* whitespace given to the first \s* and the last position of the captured key
\* ("." matches anything but a line feed)
MatchCands(s, i) ==
    IF CharAt(s, i) = "{" /\ CharAt(s, i + 1) = "{"
    THEN LET p == i + 2 IN
         { c \in (0..WsRun(s, p)) \X (p..Len(s)) :
              /\ c[2] >= p + c[1]
              /\ \A j \in (p + c[1])..c[2] : s[j] # "\n"
              /\ CloseFrom(s, c[2] + 1) # 0 }
    ELSE {}

\* the match the regex reports at position i: the first \s* is greedy (most
\* whitespace first), the key is lazy (shortest first)
MatchAt(s, i) ==
    LET C == MatchCands(s, i)
        w == CHOOSE x \in {c[1] : c \in C} : \A c \in C : c[1] <= x
        ke == CHOOSE y \in {c[2] : c \in {d \in C : d[1] = w}} :
                  \A c \in C : c[1] = w => y <= c[2]
    IN [key |-> SubSeq(s, i + 2 + w, ke), next |-> CloseFrom(s, ke + 1)]

\* ctx.get(key).unwrap_or(&default)
ctx_get(c, key) == IF key \in DOMAIN c THEN c[key] ELSE default

\* replace_all: leftmost matches, left to right, not overlapping
RECURSIVE ReplaceFrom(_, _, _)
ReplaceFrom(s, from, c) ==
    LET starts == {i \in from..Len(s) : MatchCands(s, i) # {}} IN
    IF starts = {} THEN SubSeq(s, from, Len(s))
    ELSE LET i == CHOOSE x \in starts : \A y \in starts : x <= y
             m == MatchAt(s, i)
         IN SubSeq(s, from, i - 1) \o ctx_get(c, m.key) \o ReplaceFrom(s, m.next, c)

inject_context(target_str, c) == ReplaceFrom(target_str, 1, c)

----------------------------------------------------------------------------
(* Node *)

Root == 1

\* Node::new_root
new_root ==
    [parent |-> None, children |-> <<>>, tag |-> None, content |-> None,
     attrs |-> None]

\* Weak::upgrade: the parent while it is alive, that is, while the heap holds it
upgrade(ns, weak) == IF weak \in DOMAIN ns THEN Some(weak) ELSE None

\* variant of add_child: the child's parent reference is the root
add_child_under_root(ns, self, tag, attrs, parent) ==
    LET child == [parent |-> Some(Root), children |-> <<>>, tag |-> tag,
                  content |-> None, attrs |-> attrs]
        child_ref == Len(ns) + 1
    IN Append([ns EXCEPT ![self].children = Append(@, child_ref)], child)

\* Node::add_child on the node at index `self`: the heap with the child pushed
\* to self.children; the child's reference is the last index of the result
add_child(ns, self, tag, attrs, parent) ==
    LET child == [parent |-> Some(parent), children |-> <<>>, tag |-> tag,
                  content |-> None, attrs |-> attrs]
        child_ref == Len(ns) + 1
    IN Append([ns EXCEPT ![self].children = Append(@, child_ref)], child)

\* (0..depth).map(|_| "  ").collect(): empty when depth <= 0
RECURSIVE Indentation(_)
Indentation(depth) ==
    IF depth <= 0 THEN <<>> ELSE <<" ", " ">> \o Indentation(depth - 1)

\* Node::to_html on the node at index `self`
RECURSIVE to_html(_, _, _, _, _)
RECURSIVE ChildrenHtml(_, _, _, _, _)
\* variant of to_html: the closing tag keeps its indentation after content
to_html_indented_close(ns, self, html0, depth, c) ==
    LET node == ns[self]
        attrs_str == IF is_some(node.attrs)
                     THEN <<" ">> \o inject_context(unwrap(node.attrs), c)
                     ELSE <<>>
        h1 == IF is_some(node.tag)
              THEN html0 \o Indentation(depth) \o <<"<">> \o unwrap(node.tag)
                         \o attrs_str \o <<">">>
              ELSE html0
        h2 == IF is_some(node.content)
              THEN h1 \o inject_context(unwrap(node.content), c)
              ELSE h1 \o <<"\n">>
        h3 == ChildrenHtml(ns, node.children, h2, depth + 1, c)
    IN IF is_some(node.tag)
       THEN h3 \o Indentation(depth) \o <<"<", "/">> \o unwrap(node.tag)
               \o <<">", "\n">>
       ELSE h3

to_html(ns, self, html0, depth, c) ==
    LET node == ns[self]
        attrs_str == IF is_some(node.attrs)
                     THEN <<" ">> \o inject_context(unwrap(node.attrs), c)
                     ELSE <<>>
        h1 == IF is_some(node.tag)
              THEN html0 \o Indentation(depth) \o <<"<">> \o unwrap(node.tag)
                         \o attrs_str \o <<">">>
              ELSE html0
        h2 == IF is_some(node.content)
              THEN h1 \o inject_context(unwrap(node.content), c)
              ELSE h1 \o <<"\n">>
        indentation == IF is_some(node.content) THEN <<>> ELSE Indentation(depth)
        h3 == ChildrenHtml(ns, node.children, h2, depth + 1, c)
    IN IF is_some(node.tag)
       THEN h3 \o indentation \o <<"<", "/">> \o unwrap(node.tag) \o <<">", "\n">>
       ELSE h3

\* for child in self.children.iter() { html = child.borrow().to_html(..) }
ChildrenHtml(ns, children, html0, depth, c) ==
    IF children = <<>> THEN html0
    ELSE ChildrenHtml(ns, Tail(children),
                      to_html(ns, Head(children), html0, depth, c), depth, c)

----------------------------------------------------------------------------
(* Parser *)

States == {"Attr", "Content", "Comment", "Blank", "Tag", "TagOpen", "TagClose"}

\* the Parser value the variables hold
Self ==
    [state |-> state, buf |-> buf, comment_buf |-> comment_buf,
     attr_buf |-> attr_buf, current_node |-> current_node, nodes |-> nodes]

\* Parser::new
new ==
    [state |-> "Blank", buf |-> <<>>, comment_buf |-> <<>>, attr_buf |-> <<>>,
     current_node |-> Root, nodes |-> <<new_root>>]

\* Parser::add_child_to_current_node
add_child_to_current_node(p, tag, attrs) ==
    LET ns == add_child(p.nodes, p.current_node, tag, attrs, p.current_node)
    IN [p EXCEPT !.nodes = ns, !.current_node = Len(ns)]

\* variant of is_content: the space is left out of the excluded characters
is_content_space(ch) == ch \notin {"<", ">", "\n", "\t", "\r", "\\", "{", "}"}

\* Parser::is_content
is_content(ch) == ch \notin {"<", ">", "\n", "\t", "\r", "\\", "{", "}", " "}

\* the arms of the match in parse_ch, in source order
Arms ==
    << "Blank_lt", "Blank_content", "Tag_slash", "Tag_bang", "Tag_alnum",
       "Comment_gt", "Comment_any", "TagClose_other", "TagClose_gt",
       "TagOpen_space", "TagOpen_alnum", "Open_gt", "Attr_any",
       "Content_other", "Content_lt", "default" >>

\* the pattern and the guard of one arm
ArmMatches(a, st, ch) ==
    CASE a = "Blank_lt"       -> st = "Blank" /\ ch = "<"
      [] a = "Blank_content"  -> st = "Blank" /\ is_content(ch)
      [] a = "Tag_slash"      -> st = "Tag" /\ ch = "/"
      [] a = "Tag_bang"       -> st = "Tag" /\ ch = "!"
      [] a = "Tag_alnum"      -> st = "Tag" /\ is_alphanumeric(ch)
      [] a = "Comment_gt"     -> st = "Comment" /\ ch = ">"
      [] a = "Comment_any"    -> st = "Comment"
      [] a = "TagClose_other" -> st = "TagClose" /\ ch # ">"
      [] a = "TagClose_gt"    -> st = "TagClose" /\ ch = ">"
      [] a = "TagOpen_space"  -> st = "TagOpen" /\ ch = " "
      [] a = "TagOpen_alnum"  -> st = "TagOpen" /\ is_alphanumeric(ch)
      [] a = "Open_gt"        -> st \in {"TagOpen", "Attr"} /\ ch = ">"
      [] a = "Attr_any"       -> st = "Attr"
      [] a = "Content_other"  -> st = "Content" /\ ch # "<"
      [] a = "Content_lt"     -> st = "Content" /\ ch = "<"
      [] a = "default"        -> TRUE

\* the arms whose pattern and guard accept (st, ch)
MatchingArms(st, ch) == {i \in 1..Len(Arms) : ArmMatches(Arms[i], st, ch)}

\* match takes the first arm that accepts
SelectArm(st, ch) ==
    LET M == MatchingArms(st, ch)
    IN Arms[CHOOSE i \in M : \A j \in M : i <= j]

\* (State::Blank, '<')
Blank_lt(p, ch) == [p EXCEPT !.state = "Tag", !.buf = <<>>]

\* variant of Blank_content: the text run gets a tagless node of its own
Blank_content_textnode(p, ch) ==
    add_child_to_current_node(
        [p EXCEPT !.state = "Content", !.buf = Append(@, ch)], None, None)

\* (State::Blank, ch) if Self::is_content(ch)
Blank_content(p, ch) == [p EXCEPT !.state = "Content", !.buf = Append(@, ch)]

\* (State::Tag, '/')
Tag_slash(p, ch) == [p EXCEPT !.state = "TagClose"]

\* (State::Tag, '!')
Tag_bang(p, ch) == [p EXCEPT !.state = "Comment"]

\* variant of Tag_alnum: the first character of the tag name is not kept
Tag_alnum_nopush(p, ch) == [p EXCEPT !.state = "TagOpen"]

\* (State::Tag, ch) if ch.is_alphanumeric()
Tag_alnum(p, ch) == [p EXCEPT !.state = "TagOpen", !.buf = Append(@, ch)]

\* (State::Comment, '>')
Comment_gt(p, ch) ==
    IF ends_with(p.comment_buf, <<"-", "-">>)
    THEN [p EXCEPT !.comment_buf = <<>>, !.state = "Blank"]
    ELSE p

\* (State::Comment, _)
Comment_any(p, ch) == [p EXCEPT !.comment_buf = Append(@, ch)]

\* (State::TagClose, ch) if ch != '>'
TagClose_other(p, ch) == p

\* variant of TagClose_gt: the cursor goes back to the root, not to the parent
TagClose_gt_toroot(p, ch) == [p EXCEPT !.current_node = Root, !.state = "Blank"]

\* variant of TagClose_gt: the state is reset only when a parent was found
TagClose_gt_blank_inside(p, ch) ==
    LET parent_weak == p.nodes[p.current_node].parent
    IN IF is_some(parent_weak)
       THEN [p EXCEPT !.current_node = unwrap(parent_weak), !.state = "Blank"]
       ELSE p

\* variant of TagClose_gt: the parent is taken without checking that there is
\* one (0 is no node)
TagClose_gt_unwrap(p, ch) ==
    LET parent_weak == p.nodes[p.current_node].parent
    IN [p EXCEPT !.current_node = IF is_some(parent_weak)
                                  THEN unwrap(parent_weak) ELSE 0,
                 !.state = "Blank"]

\* (State::TagClose, '>')
TagClose_gt(p, ch) ==
    LET parent_weak == p.nodes[p.current_node].parent
        moved == IF is_some(parent_weak)
                 THEN LET parent == upgrade(p.nodes, unwrap(parent_weak))
                      IN IF is_some(parent)
                         THEN [p EXCEPT !.current_node = unwrap(parent)]
                         ELSE p
                 ELSE p
    IN [moved EXCEPT !.state = "Blank"]

\* (State::TagOpen, ch) if ch == ' '
TagOpen_space(p, ch) == [p EXCEPT !.state = "Attr"]

\* (State::TagOpen, ch) if ch.is_alphanumeric()
TagOpen_alnum(p, ch) == [p EXCEPT !.buf = Append(@, ch)]

\* variant of Open_gt: the attribute buffer is not cleared
Open_gt_keepattrs(p, ch) ==
    LET attrs == IF p.attr_buf # <<>> THEN Some(p.attr_buf) ELSE None
        tag == Some(p.buf)
        q == add_child_to_current_node(p, tag, attrs)
    IN [q EXCEPT !.state = "Blank", !.buf = <<>>]

\* (State::TagOpen | State::Attr, '>')
Open_gt(p, ch) ==
    LET attrs == IF p.attr_buf # <<>> THEN Some(p.attr_buf) ELSE None
        tag == Some(p.buf)
        q == add_child_to_current_node(p, tag, attrs)
    IN [q EXCEPT !.state = "Blank", !.buf = <<>>, !.attr_buf = <<>>]

\* (State::Attr, ch)
Attr_any(p, ch) == [p EXCEPT !.attr_buf = Append(@, ch)]

\* (State::Content, ch) if ch != '<'
Content_other(p, ch) == [p EXCEPT !.buf = Append(@, ch)]

\* variant of Content_lt: the text is committed but the state stays Content
Content_lt_stay(p, ch) ==
    IF ~ends_with(p.buf, <<"\\">>)
    THEN [p EXCEPT !.nodes[p.current_node].content = Some(p.buf),
                   !.buf = <<>>]
    ELSE p

\* variant of Content_lt: a trailing backslash does not protect the "<"
Content_lt_noescape(p, ch) ==
    [p EXCEPT !.nodes[p.current_node].content = Some(p.buf),
              !.buf = <<>>, !.state = "TagClose"]

\* variant of Content_lt: the "<" is kept at the end of the committed text
Content_lt_keep_lt(p, ch) ==
    IF ~ends_with(p.buf, <<"\\">>)
    THEN [p EXCEPT !.nodes[p.current_node].content = Some(Append(p.buf, ch)),
                   !.buf = <<>>, !.state = "TagClose"]
    ELSE p

\* (State::Content, '<')
Content_lt(p, ch) ==
    IF ~ends_with(p.buf, <<"\\">>)
    THEN [p EXCEPT !.nodes[p.current_node].content = Some(p.buf),
                   !.buf = <<>>, !.state = "TagClose"]
    ELSE p

\* Parser::parse_ch
parse_ch(p, ch) ==
    LET a == SelectArm(p.state, ch) IN
    CASE a = "Blank_lt"       -> Blank_lt(p, ch)
      [] a = "Blank_content"  -> Blank_content(p, ch)
      [] a = "Tag_slash"      -> Tag_slash(p, ch)
      [] a = "Tag_bang"       -> Tag_bang(p, ch)
      [] a = "Tag_alnum"      -> Tag_alnum(p, ch)
      [] a = "Comment_gt"     -> Comment_gt(p, ch)
      [] a = "Comment_any"    -> Comment_any(p, ch)
      [] a = "TagClose_other" -> TagClose_other(p, ch)
      [] a = "TagClose_gt"    -> TagClose_gt(p, ch)
      [] a = "TagOpen_space"  -> TagOpen_space(p, ch)
      [] a = "TagOpen_alnum"  -> TagOpen_alnum(p, ch)
      [] a = "Open_gt"        -> Open_gt(p, ch)
      [] a = "Attr_any"       -> Attr_any(p, ch)
      [] a = "Content_other"  -> Content_other(p, ch)
      [] a = "Content_lt"     -> Content_lt(p, ch)
      [] a = "default"        -> p

\* variant of parser_to_html: the root is rendered at depth 0
parser_to_html_depth0(p, c) == to_html(p.nodes, Root, <<>>, 0, c)

\* Parser::to_html
parser_to_html(p, c) == to_html(p.nodes, Root, <<>>, -1, c)

----------------------------------------------------------------------------
(* parse_file: the file's characters go to parse_ch one by one, then the      *)
(* tree is rendered                                                           *)

\* the text of the files with known content; "any" is a file whose characters
\* are arbitrary and "doc" one produced by the document generator below
FileText(name) ==
    CASE name = "roundtrip" ->
           <<"<", "a", ">", "<", "b", ">", "h", "i", "<", "/", "b", ">",
             "<", "/", "a", ">">>
      [] name = "placeholder" ->
           <<"<", "p", ">", "{", "{", " ", "v", "a", "r", "i", "a", "b", "l",
             "e", " ", "}", "}", "<", "/", "p", ">">>
      [] name = "missing" ->
           <<"<", "p", ">", "{", "{", " ", "m", "i", "s", "s", "i", "n", "g",
             " ", "}", "}", "<", "/", "p", ">">>
      [] name = "comment" ->
           <<"<", "!", "-", "-", " ", "a", " ", ">", " ", "b", " ", "-", "-",
             " ", "c", "o", "m", "m", "e", "n", "t", " ", "-", "-", ">",
             "c", "o", "n", "t", "e", "n", "t">>
      [] name = "closer" ->
           <<"<", "/", "a", ">">>
      [] name = "dashes" ->
           <<"<", "!", "-", ">", "-", ">", "a", "<">>
      [] name = "attrs" ->
           <<"<", "p", " ", "c", "{", "{", "v", "a", "r", "i", "a", "b", "l",
             "e", "}", "}", ">", "a", "{", "{", " ", "m", " ", "}", "}", "<",
             "/", "p", ">">>
      [] name = "mixed" ->
           <<"<", "a", ">", "<", "b", " ", "x", ">", "<", "/", "b", ">",
             "<", "c", ">", "t", "<", "/", "c", ">", "u", "<", "/", "a",
             ">", "v">>
      [] name = "nested" ->
           <<"<", "a", ">", "<", "b", ">", "<", "c", ">", "<", "/", "c", ">",
             "<", "d", " ", "e", ">", "<", "/", "d", ">", "<", "/", "b", ">",
             "<", "/", "a", ">">>
      [] OTHER -> <<>>

FileNames == {"roundtrip", "placeholder", "missing", "comment", "closer",
              "dashes", "attrs", "mixed", "nested",
              "any"}

\* Context values: the empty one and the one main builds
EmptyCtx == <<>>
MainCtx == [k \in {<<"v", "a", "r", "i", "a", "b", "l", "e">>} |->
               <<"1", "2", "3", "4">>]
Contexts == {EmptyCtx, MainCtx}

NoGen == /\ opens = <<>>
         /\ lastTok = "none"
         /\ toks = 0
         /\ inGrammar = TRUE
         /\ closeObs = <<>>

\* let mut parser = Parser::new() on entry to parse_file
Started ==
    /\ n = 0
    /\ last2 = <<>>
    /\ arm = "none"
    /\ state = new.state
    /\ buf = new.buf
    /\ comment_buf = new.comment_buf
    /\ attr_buf = new.attr_buf
    /\ current_node = new.current_node
    /\ nodes = new.nodes
    /\ pc = "parsing"
    /\ html = <<>>
    /\ renders = 0

Init ==
    /\ file_name \in FileNames
    /\ todo = FileText(file_name)
    /\ ctx \in Contexts
    /\ Started
    /\ NoGen

\* parser.parse_ch(ch) for the next character of the file
Consume(ch) ==
    LET q == parse_ch(Self, ch) IN
    /\ state' = q.state
    /\ buf' = q.buf
    /\ comment_buf' = q.comment_buf
    /\ attr_buf' = q.attr_buf
    /\ current_node' = q.current_node
    /\ nodes' = q.nodes
    /\ arm' = SelectArm(state, ch)
    /\ n' = n + 1
    /\ last2' = IF Len(last2) < 2 THEN Append(last2, ch) ELSE <<last2[2], ch>>

\* for ch in f.chars(): a file with known text
FeedKnown ==
    /\ pc = "parsing"
    /\ todo # <<>>
    /\ Consume(Head(todo))
    /\ todo' = Tail(todo)
    /\ UNCHANGED <<file_name, pc, ctx, html, renders, genVars>>

\* for ch in f.chars(): a file with arbitrary text
FeedAny ==
    /\ pc = "parsing"
    /\ file_name = "any"
    /\ n < MaxLen
    /\ \E ch \in Alphabet : Consume(ch)
    /\ UNCHANGED <<file_name, todo, pc, ctx, html, renders, genVars>>

\* variant of Render: the substituted content is stored back into the nodes
Render_writeback ==
    /\ todo = <<>>
    /\ file_name # "doc"
    /\ renders < MaxRenders
    /\ html' = parser_to_html(Self, ctx)
    /\ nodes' = [i \in DOMAIN nodes |->
                   IF is_some(nodes[i].content)
                   THEN [nodes[i] EXCEPT
                           !.content = Some(inject_context(unwrap(@), ctx))]
                   ELSE nodes[i]]
    /\ pc' = "rendered"
    /\ renders' = renders + 1
    /\ UNCHANGED <<file_name, todo, n, last2, arm, state, buf, comment_buf,
                   attr_buf, current_node, ctx, genVars>>

\* variant of Render: a text run still in the buffer is committed to the
\* current node before the tree is rendered
Render_flush ==
    /\ todo = <<>>
    /\ file_name # "doc"
    /\ renders < MaxRenders
    /\ html' = parser_to_html(
                  IF state = "Content"
                  THEN [Self EXCEPT !.nodes[current_node].content = Some(buf)]
                  ELSE Self, ctx)
    /\ pc' = "rendered"
    /\ renders' = renders + 1
    /\ UNCHANGED <<file_name, todo, n, last2, arm, parserVars, ctx, genVars>>

\* parser.to_html(ctx) once the characters are exhausted
Render ==
    /\ todo = <<>>
    /\ file_name # "doc"
    /\ renders < MaxRenders
    /\ html' = parser_to_html(Self, ctx)
    /\ pc' = "rendered"
    /\ renders' = renders + 1
    /\ UNCHANGED <<file_name, todo, n, last2, arm, parserVars, ctx, genVars>>

Next == FeedKnown \/ FeedAny \/ Render

Spec == Init /\ [][Next]_vars

----------------------------------------------------------------------------
(* Documents in which every opening tag has a matching closing tag: the file  *)
(* is produced token by token (opening tags, text runs, closing tags) and     *)
(* parsed character by character as it is produced                            *)

\* number of ancestors of node i
RECURSIVE Depth(_, _)
Depth(ns, i) ==
    IF is_some(ns[i].parent) /\ unwrap(ns[i].parent) \in DOMAIN ns
    THEN 1 + Depth(ns, unwrap(ns[i].parent))
    ELSE 0

TagNames == {<<"a">>, <<"b">>}
AttrTexts == {<<>>, <<"c">>}
Texts == {<<"t">>, <<" ">>, <<"t", "\\">>}

HasContentChar(t) == \E i \in 1..Len(t) : is_content(t[i])

CanEmit ==
    /\ pc = "parsing"
    /\ file_name = "doc"
    /\ todo = <<>>
    /\ toks < MaxToks

\* an opening tag <name> or <name attrs>
GenOpen ==
    /\ CanEmit
    /\ \E name \in {<<"a">>}, at \in AttrTexts :
          todo' = <<"<">> \o name
                    \o (IF at = <<>> THEN <<>> ELSE <<" ">> \o at) \o <<">">>
    /\ lastTok' = "open"
    /\ toks' = toks + 1
    \* a text run that starts content must be followed by a closing tag
    /\ inGrammar' = (inGrammar /\ lastTok # "text")
    /\ UNCHANGED <<file_name, n, last2, arm, parserVars, pc, ctx, html, renders,
                   opens, closeObs>>

\* a text run (no "<" in it)
GenText ==
    /\ CanEmit
    /\ lastTok \notin {"text", "blanktext"}
    /\ \E t \in Texts :
          /\ todo' = t
          /\ lastTok' = IF HasContentChar(t) THEN "text" ELSE "blanktext"
          /\ inGrammar' = (inGrammar /\ ~(HasContentChar(t) /\ ends_with(t, <<"\\">>)))
    /\ toks' = toks + 1
    /\ UNCHANGED <<file_name, n, last2, arm, parserVars, pc, ctx, html, renders,
                   opens, closeObs>>

\* the closing tag of the innermost open element; its name is free
GenClose ==
    /\ CanEmit
    /\ opens # <<>>
    /\ \E name \in TagNames : todo' = <<"<", "/">> \o name \o <<">">>
    /\ lastTok' = "close"
    /\ toks' = toks + 1
    /\ UNCHANGED <<file_name, n, last2, arm, parserVars, pc, ctx, html, renders,
                   opens, inGrammar, closeObs>>

\* for ch in f.chars(): the next character of the document; on the ">" of an
\* opening tag the cursor's depth is recorded, on the ">" of a closing tag it is
\* compared with the depth recorded for the matching opening tag
FeedDoc ==
    /\ pc = "parsing"
    /\ file_name = "doc"
    /\ todo # <<>>
    /\ Consume(Head(todo))
    /\ todo' = Tail(todo)
    /\ IF Tail(todo) = <<>> /\ lastTok = "open"
       THEN /\ opens' = Append(opens, Depth(nodes', current_node'))
            /\ closeObs' = closeObs
       ELSE IF Tail(todo) = <<>> /\ lastTok = "close"
       THEN /\ opens' = SubSeq(opens, 1, Len(opens) - 1)
            /\ closeObs' = Some([at |-> Depth(nodes, current_node),
                                 opener |-> opens[Len(opens)]])
       ELSE UNCHANGED <<opens, closeObs>>
    /\ UNCHANGED <<file_name, pc, ctx, html, renders, lastTok, toks, inGrammar>>

InitDoc ==
    /\ file_name = "doc"
    /\ todo = <<>>
    /\ ctx = EmptyCtx
    /\ Started
    /\ NoGen

NextDoc == GenOpen \/ GenText \/ GenClose \/ FeedDoc

SpecDoc == InitDoc /\ [][NextDoc]_vars

----------------------------------------------------------------------------
(* Properties *)

\* sub occurs in s as a run of consecutive characters
Contains(s, sub) ==
    \E i \in 0..(Len(s) - Len(sub)) : SubSeq(s, i + 1, i + Len(sub)) = sub

\* the character the last call of parse_ch consumed, in the state after it
LastCh == last2[Len(last2)]

\* C1: parsing <a><b>hi</b></a> and rendering from the root with an empty
\* context yields exactly "<a>\n  <b>hi</b>\n</a>\n", nothing before "<a>"
C1_RoundTripExact ==
    (file_name = "roundtrip" /\ ctx = EmptyCtx /\ pc = "rendered") =>
        html = <<"<", "a", ">", "\n", " ", " ", "<", "b", ">", "h", "i",
                 "<", "/", "b", ">", "\n", "<", "/", "a", ">", "\n">>

\* C2: parsing <p>{{ variable }}</p> and rendering with {"variable": "1234"}
\* produces <p>1234</p>; the placeholder reaches the node's content intact
C2_PlaceholderSubstituted ==
    (file_name = "placeholder" /\ ctx = MainCtx /\ pc = "rendered") =>
        /\ Contains(html, <<"<", "p", ">", "1", "2", "3", "4", "<", "/", "p", ">">>)
        /\ \E i \in DOMAIN nodes :
              nodes[i].content = Some(<<"{", "{", " ", "v", "a", "r", "i", "a",
                                        "b", "l", "e", " ", "}", "}">>)

\* C3: parsing <p>{{ missing }}</p> and rendering with an empty context
\* completes and produces <p>CTX MISS</p>
C3_MissingKeyRendersDefault ==
    (file_name = "missing" /\ ctx = EmptyCtx /\ todo = <<>>) =>
        /\ ENABLED Render \/ pc = "rendered"
        /\ pc = "rendered" =>
              Contains(html, <<"<", "p", ">">> \o default \o <<"<", "/", "p", ">">>)

\* the characters of the model
Chars == Alnum \cup {"<", ">", "/", "!", "-", " ", "\\", "{", "}", "\n", "\t",
                     "\r"}

\* one character of every class the patterns and guards of parse_ch tell apart
CharClasses == {"<", ">", "/", "!", " ", "a", "-", "\\", "{", "\n"}

\* C4: in a document where every opening tag has a matching closing tag, the
\* cursor's depth when the ">" of a closing tag is processed equals its depth
\* right after the ">" of the matching opening tag, and the cursor is back at
\* the root after the last closer; claimed for any such document
C4_DepthAtCloser ==
    /\ closeObs # <<>> => unwrap(closeObs).at = unwrap(closeObs).opener
    /\ (lastTok = "close" /\ todo = <<>> /\ opens = <<>>) => current_node = Root

\* C4 as amended: the same, for documents in which every text run that holds
\* a content character is directly followed by a closing tag and does not end
\* with a backslash
C4_DepthAtCloserInGrammar ==
    inGrammar =>
        /\ closeObs # <<>> => unwrap(closeObs).at = unwrap(closeObs).opener
        /\ (lastTok = "close" /\ todo = <<>> /\ opens = <<>>) =>
              current_node = Root

\* a nested element with text was closed at the depth of its opener
C4_Witness ==
    /\ inGrammar
    /\ closeObs # <<>>
    /\ unwrap(closeObs).at = 2
    /\ unwrap(closeObs).opener = 2
    /\ \E i \in DOMAIN nodes : is_some(nodes[i].content)

\* C5: in Comment state no character creates a node, moves the cursor or sets
\* content; the comment closes exactly at the first ">" whose two preceding
\* source characters are "--"; and the comment file leaves the root alone
C5_CommentClosesOnlyAfterDashes ==
    /\ [][(n' = n + 1 /\ state = "Comment") =>
             /\ nodes' = nodes
             /\ current_node' = current_node
             /\ state' \in {"Comment", "Blank"}
             /\ (state' = "Blank") <=> (LastCh' = ">" /\ last2 = <<"-", "-">>)]_vars
    /\ []((file_name = "comment" /\ todo = <<>>) => nodes = <<new_root>>)

\* C6: a closing tag processed with the cursor at the root does not fail,
\* leaves the cursor at the root and the tree unchanged, and returns to Blank
C6_CloserAtRoot ==
    [][(n' = n + 1 /\ state = "TagClose" /\ LastCh' = ">" /\ current_node = Root) =>
          /\ current_node' = Root
          /\ nodes' = nodes
          /\ state' = "Blank"
          /\ pc' = "parsing"]_vars

\* the bare closer </a> was processed with only the root in the tree
C6_Witness ==
    /\ file_name = "closer"
    /\ todo = <<>>
    /\ arm = "TagClose_gt"
    /\ current_node = Root
    /\ nodes = <<new_root>>

\* C7: parsing never fails: in every state and for every character parse_ch
\* has a defined outcome that is again a parser over a well-formed tree; each
\* step consumes one character; the tree that is left renders to a text
C7_ParsingNeverFails ==
    /\ state \in States
    /\ current_node \in DOMAIN nodes
    /\ \A i \in DOMAIN nodes :
          \A k \in 1..Len(nodes[i].children) :
             /\ nodes[i].children[k] \in DOMAIN nodes
             /\ nodes[i].children[k] > i
    /\ pc = "parsing" =>
          \A ch \in CharClasses :
             /\ MatchingArms(state, ch) # {}
             /\ LET q == parse_ch(Self, ch)
                IN q.state \in States /\ q.current_node \in DOMAIN q.nodes
    /\ file_name # "any" => n + Len(todo) = Len(FileText(file_name))
    /\ (pc = "parsing" /\ todo # <<>>) => ENABLED FeedKnown
    /\ pc = "rendered" =>
          \A i \in 1..Len(html) : html[i] \in Chars \cup {"C", "T", "X", "M", "I", "S"}

\* an input with an unclosed tag and an unterminated comment was rendered
C7_Witness ==
    /\ file_name = "any"
    /\ pc = "rendered"
    /\ state = "Comment"
    /\ Len(nodes) > 1
    /\ current_node # Root

C9_RootIsBare ==
    /\ nodes[Root].tag = None
    /\ nodes[Root].attrs = None
    /\ nodes[Root].content = None
    /\ nodes[Root].parent = None

\* C10: only TagOpen/Attr + ">" and TagClose + ">" change the tree or the
\* cursor; every other transition leaves the nodes and the cursor unchanged
C10_OnlyTwoArmsTouchTree ==
    [][(n' = n + 1 /\ arm' \notin {"Open_gt", "TagClose_gt"}) =>
          (nodes' = nodes /\ current_node' = current_node)]_vars

\* C10 as amended: Content + "<" is a third transition that changes the tree:
\* it sets the current node's content and nothing else of the tree; all
\* transitions but these three leave the nodes and the cursor unchanged
C10_OnlyThreeArmsTouchTree ==
    [][n' = n + 1 =>
          /\ arm' \notin {"Open_gt", "TagClose_gt", "Content_lt"} =>
                (nodes' = nodes /\ current_node' = current_node)
          /\ arm' = "Content_lt" =>
                /\ current_node' = current_node
                /\ Len(nodes') = Len(nodes)
                /\ \A i \in DOMAIN nodes :
                      /\ i # current_node => nodes'[i] = nodes[i]
                      /\ nodes'[i] = [nodes[i] EXCEPT !.content = nodes'[i].content]
          /\ arm' = "TagClose_gt" => nodes' = nodes
          /\ arm' = "Open_gt" =>
                /\ Len(nodes') = Len(nodes) + 1
                /\ current_node' = Len(nodes')]_vars

\* Content + "<" has set the content of a node
C10_Witness ==
    /\ arm = "Content_lt"
    /\ state = "TagClose"
    /\ current_node # Root
    /\ is_some(nodes[current_node].content)


\* the characters the grammar excludes from bare text
Excluded == {"<", ">", "\t", "\n", "\r", "\\", "{", "}", " "}

\* C11: text committed as a node's content never contains "<", ">", tab, line
\* feed, carriage return, backslash, "{", "}" or space; a space met while a
\* text run is being accumulated ends the run
C11_ContentHasNoExcludedChar ==
    /\ [](\A i \in DOMAIN nodes :
            is_some(nodes[i].content) =>
                \A k \in 1..Len(unwrap(nodes[i].content)) :
                    unwrap(nodes[i].content)[k] \notin Excluded)
    /\ [][(n' = n + 1 /\ state = "Content" /\ LastCh' = " ") =>
              state' # "Content"]_vars

\* C11 as amended: committed content is not empty, its first character is
\* none of the excluded characters, and it never contains "<"; the characters
\* after the first may be any of the others, space included
C11_ContentStartsWithContentChar ==
    \A i \in DOMAIN nodes :
        is_some(nodes[i].content) =>
            LET text == unwrap(nodes[i].content) IN
            /\ Len(text) >= 1
            /\ text[1] \notin Excluded
            /\ \A k \in 1..Len(text) : text[k] # "<"

\* committed content of an element holds a space and braces
C11_Witness ==
    \E i \in DOMAIN nodes :
        /\ i # Root
        /\ is_some(nodes[i].content)
        /\ \E k \in 1..Len(unwrap(nodes[i].content)) :
              unwrap(nodes[i].content)[k] = " "
        /\ \E k \in 1..Len(unwrap(nodes[i].content)) :
              unwrap(nodes[i].content)[k] = "{"


\* the (state, character) pairs the transition table does not list
Unlisted(st, ch) ==
    \/ st = "Blank" /\ ch \in {">", "\t", "\n", "\r", "\\", "{", "}", " "}
    \/ st = "Tag" /\ ch \notin {"/", "!"} /\ ch \notin Alnum
    \/ st = "TagOpen" /\ ch \notin {" ", ">"} /\ ch \notin Alnum

\* C12: every (state, character) pair the transition table does not list is a
\* no-op: the state, the three buffers, the tree and the cursor are unchanged;
\* these pairs are exactly the ones the default arm takes
C12_UnlistedPairsAreNoOps ==
    [][n' = n + 1 =>
          /\ (arm' = "default") <=> Unlisted(state, LastCh')
          /\ Unlisted(state, LastCh') => UNCHANGED parserVars]_vars

\* a character that is no part of a tag name was dropped in TagOpen
C12_Witness ==
    /\ arm = "default"
    /\ state = "TagOpen"
    /\ LastCh = "-"
    /\ buf # <<>>


\* C13: a `>` in TagOpen or Attr appends exactly one node as the last child of
\* the current node, with the accumulated tag, the accumulated attribute text
\* (every character after the first space, verbatim; absent when empty), no
\* content, no children and the previous current node as parent; the new node
\* becomes the current node, both buffers are empty, the state is Blank and
\* no other node changes
C13_OpenTagMaterialised ==
    [][n' = n + 1 =>
          /\ state = "TagOpen" => attr_buf = <<>>
          /\ (state = "TagOpen" /\ LastCh' = " ") =>
                state' = "Attr" /\ attr_buf' = <<>> /\ buf' = buf
          /\ (state = "Attr" /\ LastCh' # ">") =>
                /\ state' = "Attr"
                /\ attr_buf' = Append(attr_buf, LastCh')
                /\ buf' = buf
          /\ (state \in {"TagOpen", "Attr"} /\ LastCh' = ">") =>
                /\ Len(nodes') = Len(nodes) + 1
                /\ nodes'[Len(nodes')] =
                      [parent |-> Some(current_node), children |-> <<>>,
                       tag |-> Some(buf), content |-> None,
                       attrs |-> IF attr_buf = <<>> THEN None
                                 ELSE Some(attr_buf)]
                /\ nodes'[current_node].children =
                      Append(nodes[current_node].children, Len(nodes'))
                /\ \A i \in DOMAIN nodes :
                      /\ i # current_node => nodes'[i] = nodes[i]
                      /\ nodes'[i].parent = nodes[i].parent
                      /\ nodes'[i].tag = nodes[i].tag
                      /\ nodes'[i].content = nodes[i].content
                      /\ nodes'[i].attrs = nodes[i].attrs
                /\ current_node' = Len(nodes')
                /\ buf' = <<>>
                /\ attr_buf' = <<>>
                /\ state' = "Blank"]_vars

\* a second child was appended under a non-root node whose first child has
\* attribute text
C13_Witness ==
    /\ arm = "Open_gt"
    /\ LastCh = ">"
    /\ unwrap(nodes[current_node].parent) # Root
    /\ Len(nodes[unwrap(nodes[current_node].parent)].children) = 2
    /\ \E i \in DOMAIN nodes : is_some(nodes[i].attrs)


\* what a "<" in Content does, and what TagClose does with the characters
\* before the ">" once the current node's content is committed
ContentLtCommits ==
    /\ (state = "Content" /\ LastCh' = "<" /\ ~ends_with(buf, <<"\\">>)) =>
          /\ nodes' = [nodes EXCEPT ![current_node].content = Some(buf)]
          /\ buf' = <<>>
          /\ state' = "TagClose"
          /\ UNCHANGED <<comment_buf, attr_buf, current_node>>
    /\ (state = "Content" /\ LastCh' = "<" /\ ends_with(buf, <<"\\">>)) =>
          /\ state' = "Content"
          /\ UNCHANGED parserVars
    /\ (state = "TagClose" /\ is_some(nodes[current_node].content)
          /\ LastCh' # ">") =>
          /\ state' = "TagClose"
          /\ UNCHANGED parserVars

OpenTagText(node, c) ==
    <<"<">> \o unwrap(node.tag)
       \o (IF is_some(node.attrs)
           THEN <<" ">> \o inject_context(unwrap(node.attrs), c) ELSE <<>>)
       \o <<">">>
CloseTagText(node) == <<"<", "/">> \o unwrap(node.tag) \o <<">">>

\* the opening tag, the substituted content and the closing tag of a node
\* with nothing between them
FlushText(node, c) ==
    OpenTagText(node, c) \o inject_context(unwrap(node.content), c)
       \o CloseTagText(node)

Spaces(d) == [k \in 1..(2 * d) |-> " "]

\* the nodes in the order a depth-first pre-order traversal from node i
\* visits them
RECURSIVE PreOrder(_, _)
RECURSIVE PreOrderAll(_, _)
PreOrder(ns, i) == <<i>> \o PreOrderAll(ns, ns[i].children)
PreOrderAll(ns, children) ==
    IF children = <<>> THEN <<>>
    ELSE PreOrder(ns, Head(children)) \o PreOrderAll(ns, Tail(children))

\* the text a tagged node stands for, from the number d of its tagged
\* ancestors: 2d spaces, the opening tag, a line break, its children in
\* insertion order, 2d spaces, the closing tag, a line break (a node with
\* content has the content for the line break and no spaces before the
\* closing tag)
RECURSIVE Rendering(_, _, _)
RECURSIVE RenderingAll(_, _, _)
Rendering(ns, i, c) ==
    LET node == ns[i]
        d == Depth(ns, i) - 1
    IN IF is_some(node.content)
       THEN Spaces(d) \o OpenTagText(node, c)
               \o inject_context(unwrap(node.content), c)
               \o RenderingAll(ns, node.children, c)
               \o CloseTagText(node) \o <<"\n">>
       ELSE Spaces(d) \o OpenTagText(node, c) \o <<"\n">>
               \o RenderingAll(ns, node.children, c)
               \o Spaces(d) \o CloseTagText(node) \o <<"\n">>
RenderingAll(ns, children, c) ==
    IF children = <<>> THEN <<>>
    ELSE Rendering(ns, Head(children), c) \o RenderingAll(ns, Tail(children), c)

\* C16: whenever a tree is rendered, the output ends with the renderings of
\* the root's children in insertion order, where a tagged node without
\* content and with d tagged ancestors is rendered as 2d spaces, its opening
\* tag, a line break, its children at depth d + 1, 2d spaces, its closing tag
\* and a line break; before them stands only what the root itself emits; the
\* traversal is depth-first pre-order and visits every node exactly once
C16_TaggedNodeLayout ==
    [][renders' = renders + 1 =>
          LET body == RenderingAll(nodes, nodes[Root].children, ctx) IN
          /\ Len(html') >= Len(body)
          /\ SubSeq(html', Len(html') - Len(body) + 1, Len(html')) = body
          /\ Len(html') - Len(body) =
                IF is_some(nodes[Root].content)
                THEN Len(inject_context(unwrap(nodes[Root].content), ctx))
                ELSE 1
          /\ PreOrder(nodes, Root) = [k \in 1..Len(nodes) |-> k]]_vars

\* a rendered tree in which a node without content, with a tagged ancestor,
\* has two children
C16_Witness ==
    /\ pc = "rendered"
    /\ \E i \in DOMAIN nodes :
          /\ is_some(nodes[i].tag)
          /\ ~is_some(nodes[i].content)
          /\ Depth(nodes, i) >= 2
          /\ Len(nodes[i].children) >= 2
    /\ Contains(html, <<"\n", " ", " ", " ", " ", "<">>)


\* the number of children lists that hold node i
Holders(ns, i) ==
    Cardinality({<<j, k>> \in (DOMAIN ns) \X (1..Len(ns)) :
                    k \in DOMAIN ns[j].children /\ ns[j].children[k] = i})

\* C17: the cursor is a node of the tree rooted at the root, and the parent
\* reference of every node but the root resolves to the one node that holds
\* it in its children; hence a ">" in TagClose with the cursor at a node other
\* than the root moves the cursor to that node's parent, and one character
\* changes the cursor's depth by at most one
C17_CursorAndParentsConsistent ==
    /\ [](/\ current_node \in DOMAIN nodes
          /\ \E k \in DOMAIN PreOrder(nodes, Root) :
                PreOrder(nodes, Root)[k] = current_node
          /\ nodes[Root].parent = None
          /\ Holders(nodes, Root) = 0
          /\ \A i \in DOMAIN nodes \ {Root} :
                /\ is_some(nodes[i].parent)
                /\ is_some(upgrade(nodes, unwrap(nodes[i].parent)))
                /\ \E k \in DOMAIN nodes[unwrap(nodes[i].parent)].children :
                      nodes[unwrap(nodes[i].parent)].children[k] = i
                /\ Holders(nodes, i) = 1)
    /\ [][n' = n + 1 =>
             /\ (state = "TagClose" /\ LastCh' = ">" /\ current_node # Root) =>
                   /\ current_node' = unwrap(nodes[current_node].parent)
                   /\ Depth(nodes', current_node')
                         = Depth(nodes, current_node) - 1
             /\ Depth(nodes', current_node') - Depth(nodes, current_node)
                   \in {-1, 0, 1}]_vars

\* a closing tag has moved the cursor from a child to its parent, which is
\* not the root
C17_Witness ==
    /\ arm = "TagClose_gt"
    /\ current_node # Root
    /\ nodes[current_node].children # <<>>
    /\ Depth(nodes, current_node) = 1


\* node i and its ancestors
RECURSIVE PathToRoot(_, _)
PathToRoot(ns, i) ==
    {i} \cup (IF is_some(ns[i].parent) /\ unwrap(ns[i].parent) \in DOMAIN ns
              THEN PathToRoot(ns, unwrap(ns[i].parent))
              ELSE {})

\* the nodes the cursor has left for good: those that are neither the current
\* node nor one of its ancestors
Closed(ns, cur) == (DOMAIN ns) \ PathToRoot(ns, cur)

\* C18: the tree is append-only and closed subtrees are final: a character
\* removes and reorders no node, leaves every node's tag, attributes and
\* parent alone and only appends to children; a node the cursor has moved up
\* from, and every descendant of it, never changes again and stays closed;
\* the content of a node other than the root is written at most once
C18_AppendOnlyClosedFinal ==
    [][n' = n + 1 =>
          /\ Len(nodes') >= Len(nodes)
          /\ \A i \in DOMAIN nodes :
                /\ nodes'[i].tag = nodes[i].tag
                /\ nodes'[i].attrs = nodes[i].attrs
                /\ nodes'[i].parent = nodes[i].parent
                /\ Len(nodes'[i].children) >= Len(nodes[i].children)
                /\ SubSeq(nodes'[i].children, 1, Len(nodes[i].children))
                      = nodes[i].children
                /\ (i # Root /\ is_some(nodes[i].content)) =>
                      nodes'[i].content = nodes[i].content
          /\ \A i \in Closed(nodes, current_node) :
                /\ nodes'[i] = nodes[i]
                /\ i \in Closed(nodes', current_node')
          /\ (state = "TagClose" /\ LastCh' = ">" /\ current_node # Root) =>
                current_node \in Closed(nodes', current_node')]_vars

\* text was committed to a node while an earlier child of it, closed with
\* content of its own, stayed as it was
C18_Witness ==
    /\ arm = "Content_lt"
    /\ current_node # Root
    /\ is_some(nodes[current_node].content)
    /\ \E i \in Closed(nodes, current_node) :
          /\ is_some(nodes[i].content)
          /\ nodes[i].parent = Some(current_node)


\* C19: every node other than the root has a tag that is present, non-empty
\* and made only of alphanumeric characters; no node without a tag is created
C19_NonRootNodesTagged ==
    \A i \in DOMAIN nodes \ {Root} :
       /\ is_some(nodes[i].tag)
       /\ unwrap(nodes[i].tag) # <<>>
       /\ \A k \in DOMAIN unwrap(nodes[i].tag) :
             unwrap(nodes[i].tag)[k] \in Alnum

\* a node whose tag has two characters was created from a file of arbitrary
\* text
C19_Witness ==
    /\ file_name = "any"
    /\ arm = "Open_gt"
    /\ Len(unwrap(nodes[current_node].tag)) = 2


\* the parser with the same tree and nothing in its buffers
Flushed ==
    [Self EXCEPT !.state = "Blank", !.buf = <<>>, !.comment_buf = <<>>,
                 !.attr_buf = <<>>]

\* C20: what the buffers hold when the input ends is discarded: content is
\* set only by a "<" in Content and a node is created only by a ">" in TagOpen
\* or Attr, every other character leaves the tree alone, and the rendered
\* output is the one of the same tree with empty buffers (a line break alone
\* when the tree is the bare root), so trailing text, an unfinished opening
\* tag and an unterminated comment add nothing to it
C20_BuffersDiscardedAtEnd ==
    [][/\ n' = n + 1 =>
             /\ Len(nodes') # Len(nodes) =>
                   state \in {"TagOpen", "Attr"} /\ LastCh' = ">"
             /\ (\E i \in DOMAIN nodes : nodes'[i].content # nodes[i].content)
                   => state = "Content" /\ LastCh' = "<"
             /\ nodes' # nodes => arm' \in {"Open_gt", "Content_lt"}
       /\ renders' = renders + 1 =>
             /\ nodes' = nodes
             /\ html' = parser_to_html(Flushed, ctx)
             /\ nodes = <<new_root>> => html' = <<"\n">>]_vars

\* a tree with nodes was rendered while a trailing text run was in the buffer
C20_Witness ==
    /\ pc = "rendered"
    /\ state = "Content"
    /\ buf # <<>>
    /\ Len(nodes) > 1
    /\ ~Contains(html, buf)

====
